---- MODULE Spec2Model ----
(***************************************************************************)
(* Model of pkg/cli/setup.go of ovm: the two-phase bootstrap of a Context. *)
(* PreSetup runs the tasks basic and logPath in an errgroup, Setup runs    *)
(* socketPath, ssh, sshPort and target in an errgroup.  The tasks act on a *)
(* shared filesystem; every step of a task that touches the filesystem, an *)
(* external capability or the errgroup is one action.                      *)
(***************************************************************************)
EXTENDS Integers, Sequences, FiniteSets, TLC

VARIABLES
    flags,      \* the package-level CLI flag variables read by the tasks
    exe,        \* exe[p]: the path os.Executable reports to process p
    fs,         \* the filesystem: a set of nodes [path, kind, by, data, size]
    ctx,        \* ctx[p]: the Context of bootstrap process p
    phase,      \* phase[p]: where the caller of p is (new/pre/preDone/setup/done/aborted)
    pc,         \* pc[p][t]: position of task t of process p
    loc,        \* loc[p]: locals of the tasks (stat results, the open file)
    gerr,       \* gerr[p]: the err field of the errgroup of the running phase
    ret,        \* ret[p]: what PreSetup and Setup returned
    hist        \* hist[p]: observations of the run (calls made, order of failures, snapshots)

vars == <<flags, exe, fs, ctx, phase, pc, loc, gerr, ret, hist>>

----------------------------------------------------------------------------
(* Bounds of the model *)

\* number of bootstrap processes that run one after the other
NumProcs == 2
\* number of ports the port probe scans, starting at the preferred one
MaxPortSpan == 2
\* number of calls per process that the operating system fails with an I/O error
MaxFaults == 1

Procs == 1..NumProcs

----------------------------------------------------------------------------
(* Paths.  A path is [abs, segs]: whether it starts at the root, and its   *)
(* elements.  The empty string of Go is the relative path with no element. *)

EmptyPath == [abs |-> FALSE, segs |-> <<>>]
AbsP(segs) == [abs |-> TRUE, segs |-> segs]
RelP(segs) == [abs |-> FALSE, segs |-> segs]

\* the working directory filepath.Abs prepends to a relative path
Cwd == <<"w">>

\* a bug: the path is used as the user gave it
AbsSkipped(p) == p

\* filepath.Abs: an absolute path is returned as it is, a relative one is joined to
\* the working directory
Abs(p) == IF p.abs THEN p ELSE AbsP(Cwd \o p.segs)

\* path.Join(p, elem) for one element without separator
Join(p, elem) == [abs |-> p.abs, segs |-> Append(p.segs, elem)]

\* filepath.Base: the last element of a path
Base(p) == IF p.segs = <<>> THEN "." ELSE p.segs[Len(p.segs)]

IsPrefix(s, t) == Len(s) <= Len(t) /\ SubSeq(t, 1, Len(s)) = s

\* the proper, non-empty prefixes of a sequence of path elements, and the sequence
Prefixes(s) == {SubSeq(s, 1, i) : i \in 1..Len(s)}

\* two directories overlap when one equals or is nested inside the other
Overlap(a, b) == IsPrefix(a.segs, b.segs) \/ IsPrefix(b.segs, a.segs)

----------------------------------------------------------------------------
(* The filesystem.  A node is [path, kind, by, data, size]: kind is "dir",  *)
(* "file" or "link" (a symbolic link whose target does not exist, which     *)
(* os.Stat reports as an error); by is the stamp of the phase that created  *)
(* it (0: it was there before the first bootstrap).                        *)

Node(path, kind, by, data, size) ==
    [path |-> path, kind |-> kind, by |-> by, data |-> data, size |-> size]

DirNode(path, by) == Node(path, "dir", by, <<>>, 0)

Exists(f, segs) == \E n \in f : n.path = segs
NodeAt(f, segs) == CHOOSE n \in f : n.path = segs
IsDir(f, segs) == segs = <<>> \/ \E n \in f : n.path = segs /\ n.kind = "dir"

\* the parent directory of segs exists
ParentOk(f, segs) == Len(segs) > 0 /\ IsDir(f, SubSeq(segs, 1, Len(segs) - 1))

\* os.Stat succeeds on a file or a directory, fails on a missing entry and on a
\* dangling link
StatOk(f, p) == \E n \in f : n.path = p.segs /\ n.kind \in {"dir", "file"}

\* os.MkdirAll can succeed: no element of the path is a file or a dangling link
MkdirAllOk(f, p) == \A s \in Prefixes(p.segs) : Exists(f, s) => IsDir(f, s)

\* os.MkdirAll: creates the directory and every missing parent
MkdirAll(f, p, by) ==
    f \cup {DirNode(s, by) : s \in {q \in Prefixes(p.segs) : ~Exists(f, q)}}

\* os.RemoveAll: removes the entry and everything below it
RemoveAll(f, p) == {n \in f : ~IsPrefix(p.segs, n.path)}

\* writing a file at p: replaces what is at p (and below it)
WriteFile(f, p, by, data, size) ==
    RemoveAll(f, p) \cup {Node(p.segs, "file", by, data, size)}

\* a file can be created or rewritten at p: the parent is a directory and p is
\* not a directory
WriteOk(f, p) == ParentOk(f, p.segs) /\ ~IsDir(f, p.segs)

----------------------------------------------------------------------------
(* Strings of characters, for the executable path and the key files *)

Lower(c) ==
    CASE c = "A" -> "a"
      [] c = "B" -> "b"
      [] c = "O" -> "o"
      [] OTHER -> c

\* strings.ToLower
ToLower(s) == [i \in DOMAIN s |-> Lower(s[i])]

IsSpace(c) == c \in {" ", "\n", "\t"}

RECURSIVE TrimLeft(_)
TrimLeft(s) == IF s # <<>> /\ IsSpace(Head(s)) THEN TrimLeft(Tail(s)) ELSE s

RECURSIVE TrimRight(_)
TrimRight(s) ==
    IF s # <<>> /\ IsSpace(s[Len(s)]) THEN TrimRight(SubSeq(s, 1, Len(s) - 1)) ELSE s

\* a bug: the content is taken as read, its last line end included
TrimSpaceSkipped(s) == s

\* strings.TrimSpace
TrimSpace(s) == TrimRight(TrimLeft(s))

\* md5.Sum followed by hex.EncodeToString, as a collision-free hash: the digest of
\* a string is the string itself under a tag
Md5Hex(s) == <<"md5">> \o s

----------------------------------------------------------------------------
(* The inputs: flags, executable paths, the filesystem before the bootstrap *)

\* the -name flag
Names == {"vm", "dev"}

\* the path flags the user gives: the four directories and the event socket
Layout(sock, ssh, log, target, event) ==
    [socketPath |-> sock, sshKeyPath |-> ssh, logPath |-> log, targetPath |-> target,
     eventSocketPath |-> event]

\* the path flags: all relative with the directories apart, and absolute with one
\* directory equal to or nested inside another (the last one puts the socket
\* directory where the private key of the name "vm" goes)
EventAbs == AbsP(<<"run", "event.sock">>)
LayoutRelative ==
    Layout(RelP(<<"s">>), RelP(<<"k">>), RelP(<<"l">>), RelP(<<"t">>), RelP(<<"event.sock">>))
LayoutSSHInSocket ==
    Layout(AbsP(<<"s">>), AbsP(<<"s", "k">>), AbsP(<<"l">>), AbsP(<<"t">>), EventAbs)
LayoutLogIsSocket ==
    Layout(AbsP(<<"s">>), AbsP(<<"k">>), AbsP(<<"s">>), AbsP(<<"t">>), EventAbs)
LayoutTargetInSocket ==
    Layout(AbsP(<<"s">>), AbsP(<<"k">>), AbsP(<<"l">>), AbsP(<<"s", "t">>), EventAbs)
LayoutSocketInSSH ==
    Layout(AbsP(<<"k", "vm">>), AbsP(<<"k">>), AbsP(<<"l">>), AbsP(<<"t">>), EventAbs)

Layouts ==
    {LayoutRelative, LayoutSSHInSocket, LayoutLogIsSocket, LayoutTargetInSocket,
     LayoutSocketInSSH}

Flags(name, layout) ==
    [name |-> name,
     socketPath |-> layout.socketPath,
     sshKeyPath |-> layout.sshKeyPath,
     logPath |-> layout.logPath,
     targetPath |-> layout.targetPath,
     kernelPath |-> AbsP(<<"dl", "bzImage">>),
     initrdPath |-> AbsP(<<"dl", "initrd.gz">>),
     rootfsPath |-> AbsP(<<"dl", "rootfs.erofs">>),
     cpus |-> 2,
     memory |-> 2,
     cliMode |-> TRUE,
     bindPID |-> 7,
     eventSocketPath |-> layout.eventSocketPath,
     powerSaveMode |-> TRUE,
     kernelDebug |-> TRUE]

\* executable paths as strings of characters; /L is a symbolic link to /B/o
ExeUpper == <<"/", "A", "/", "o">>
ExeLower == <<"/", "a", "/", "o">>
ExeOther == <<"/", "B", "/", "o">>
ExeLink == <<"/", "L">>
ExePaths == {ExeUpper, ExeLower, ExeOther, ExeLink}

\* filepath.EvalSymlinks
EvalSymlinks(p) == IF p = ExeLink THEN ExeOther ELSE p

\* the stamp of the phases of process p
PreStamp(p) == 2 * p - 1
SetupStamp(p) == 2 * p

\* key material of the generation made in the phase with stamp b
KeyMaterial(b) == [i \in 1..b |-> "x"]
PrivData(b) == <<"PRIVATE", "\n">> \o KeyMaterial(b) \o <<"\n">>
PubData(b) == <<"ssh-ed25519", " ">> \o KeyMaterial(b) \o <<" ", "ovm", "\n">>

\* the key files and the scratch disk as the tasks will name them
PrivPathOf(fl) == Join(Abs(fl.sshKeyPath), fl.name)
PubPathOf(fl) == Join(Abs(fl.sshKeyPath), fl.name \o ".pub")
DiskTmpOf(fl) == Join(Abs(fl.targetPath), "tmp.img")
StrayOf(fl) == Join(Abs(fl.socketPath), "stale.sock")

\* a filesystem before the first bootstrap: /tmp; when an earlier version was in
\* use, a stale socket in the socket directory and a scratch disk of 512 MiB; and by
\* choice a private key and a public key (a file, or a dangling link)
WithStray(f, fl, on) ==
    IF on THEN WriteFile(MkdirAll(f, Abs(fl.socketPath), 0), StrayOf(fl), 0, <<>>, 0) ELSE f
WithDisk(f, fl, on) ==
    IF on THEN WriteFile(MkdirAll(f, Abs(fl.targetPath), 0), DiskTmpOf(fl), 0, <<>>, 512)
    ELSE f
WithPriv(f, fl, kind) ==
    IF kind = "none" THEN f
    ELSE RemoveAll(MkdirAll(f, Abs(fl.sshKeyPath), 0), PrivPathOf(fl))
         \cup {Node(PrivPathOf(fl).segs, kind, 0, PrivData(0), 0)}
\* the public key of another pair than the private key that is there
OtherPubData == <<"ssh-ed25519", " ", "y", " ", "ovm", "\n">>
\* ("other": the public key file of another pair, as two bootstraps that
\* generated at once can leave it)
WithPub(f, fl, kind) ==
    IF kind = "none" THEN f
    ELSE RemoveAll(MkdirAll(f, Abs(fl.sshKeyPath), 0), PubPathOf(fl))
         \cup {IF kind = "other"
                THEN Node(PubPathOf(fl).segs, "file", 0, OtherPubData, 0)
                ELSE Node(PubPathOf(fl).segs, kind, 0, PubData(0), 0)}

\* the choices of what is on disk before the first bootstrap: whether the
\* directories were used before (a stale socket, a scratch disk), the private key
\* and the public key ("link": a symbolic link to nothing)
Starts ==
    {<<TRUE, "file", "file">>, <<FALSE, "file", "file">>, <<TRUE, "file", "none">>,
     <<FALSE, "none", "file">>, <<FALSE, "none", "none">>, <<TRUE, "none", "none">>,
     <<TRUE, "file", "link">>}

InitialFs(fl, used, priv, pub) ==
    WithPub(WithPriv(WithDisk(WithStray({DirNode(<<"tmp">>, 0)}, fl, used), fl, used),
                     fl, priv), fl, pub)

----------------------------------------------------------------------------
(* The Context, the tasks and the errgroup *)

PreTasks == {"basic", "logPath"}
SetupTasks == {"socketPath", "ssh", "sshPort", "target"}
Tasks == PreTasks \cup SetupTasks

\* the nil error
Nil == "nil"
\* a phase that has not returned
Pending == "pending"

NoLockFile == [dir |-> <<>>, file |-> <<>>]
NoEndpoint == [scheme |-> "", path |-> EmptyPath]

\* Init(): the zero Context
ZeroContext ==
    [Name |-> "", VersionsPath |-> EmptyPath, LogPath |-> EmptyPath,
     SocketPath |-> EmptyPath, IsCliMode |-> FALSE, LockFile |-> NoLockFile,
     ExecutablePath |-> <<>>, BindPID |-> 0, EventSocketPath |-> EmptyPath,
     PowerSaveMode |-> FALSE, KernelDebug |-> FALSE,
     Endpoint |-> NoEndpoint, SSHPort |-> 0, SSHKeyPath |-> EmptyPath,
     SSHPrivateKeyPath |-> EmptyPath, SSHPublicKeyPath |-> EmptyPath,
     SSHPublicKey |-> <<>>,
     ForwardSocketPath |-> EmptyPath, SocketNetworkPath |-> EmptyPath,
     SocketInitrdVSockPath |-> EmptyPath, SocketReadyPath |-> EmptyPath,
     RestfulSocketPath |-> EmptyPath, TimeSyncSocketPath |-> EmptyPath,
     SSHAuthSocketPath |-> EmptyPath,
     CPUS |-> 0, MemoryBytes |-> 0, KernelPath |-> EmptyPath, InitrdPath |-> EmptyPath,
     RootfsPath |-> EmptyPath, TargetPath |-> EmptyPath, DiskDataPath |-> EmptyPath,
     DiskTmpPath |-> EmptyPath]

\* the locals of the ssh task: the results of the two stat goroutines ("todo",
\* "ok", "err") and the node the opened public key file refers to
ZeroLocals == [statPriv |-> "todo", statPub |-> "todo", fd |-> DirNode(<<>>, 0)]

NoProbe == [asked |-> 0, preferredBusy |-> FALSE, allBusy |-> FALSE, free |-> FALSE]

\* no task has failed
NoFail == [task |-> "", err |-> Nil]

\* what is observed of a run: the calls of the key generation and of the sparse
\* allocation, the port probe, per phase the first task that failed with its
\* error, the tasks that failed and the error each returned, and the filesystem
\* as it was when PreSetup and when Setup was called; faults counts the calls
\* failed with an I/O error
ZeroHist ==
    [genCalls |-> 0, sparseCalls |-> 0, probe |-> NoProbe,
     first |-> [PreSetup |-> NoFail, Setup |-> NoFail],
     failed |-> {}, errOf |-> [t \in Tasks |-> Nil], faults |-> 0,
     fsAtStart |-> {}, fsAtSetup |-> {}]

InitWith(names, layouts, starts, exes) ==
    /\ \E n \in names, l \in layouts :
          /\ flags = Flags(n, l)
          /\ \E st \in starts : fs = InitialFs(flags, st[1], st[2], st[3])
    /\ exe \in [Procs -> exes]
    /\ ctx = [p \in Procs |-> ZeroContext]
    /\ phase = [p \in Procs |-> "new"]
    /\ pc = [p \in Procs |-> [t \in Tasks |-> "idle"]]
    /\ loc = [p \in Procs |-> ZeroLocals]
    /\ gerr = [p \in Procs |-> Nil]
    /\ ret = [p \in Procs |-> [PreSetup |-> Pending, Setup |-> Pending]]
    /\ hist = [p \in Procs |-> ZeroHist]

\* a bug: the group keeps the error of the task that failed last
ReportLast(p, t, err) ==
    /\ pc' = [pc EXCEPT ![p][t] = "done"]
    /\ gerr' = [gerr EXCEPT ![p] = IF err # Nil THEN err ELSE @]

\* errgroup: a task that returns err stores it in the group unless an error is
\* stored already (errOnce), and is done
Report(p, t, err) ==
    /\ pc' = [pc EXCEPT ![p][t] = "done"]
    /\ gerr' = [gerr EXCEPT ![p] = IF err # Nil /\ @ = Nil THEN err ELSE @]

PhaseOf(t) == IF t \in PreTasks THEN "PreSetup" ELSE "Setup"

\* the error of a call that failed: an I/O error when the operating system
\* refused it (io), else the reason the filesystem gives
Errno(what, io, reason) == what \o ": " \o (IF io THEN "input/output error" ELSE reason)
\* the error came from outside, not from what the bootstrap left on disk
IOErrors ==
    {Errno(w, TRUE, "") : w \in {"mkdir /tmp/ovm", "logPath: mkdir", "socketPath: mkdir",
                                  "ssh: mkdir", "ssh: generate key", "ssh: open public key",
                                  "ssh: read public key", "target: mkdir", "target: handle",
                                  "target: create sparse file"}}
    \cup {"get executable path error", "eval symlink error", "logPath: getwd",
          "socketPath: getwd", "socketPath: removeall", "ssh: getwd", "target: getwd",
          "target: newTarget"}

\* the observation a task that returns the error err adds
Observe(h, t, err) ==
    [h EXCEPT !.first[PhaseOf(t)] = IF @ = NoFail THEN [task |-> t, err |-> err] ELSE @,
              !.failed = @ \cup {t},
              !.errOf[t] = err,
              !.faults = IF err \in IOErrors THEN @ + 1 ELSE @]

\* an I/O error can be injected into a call of process p
CanFault(p) == hist[p].faults < MaxFaults
IOChoices(p) == IF CanFault(p) THEN BOOLEAN ELSE {FALSE}

\* PreSetup: a new errgroup, g.Go(c.basic), g.Go(c.logPath)
PreSetupCall(p) ==
    /\ phase[p] = "new"
    /\ phase' = [phase EXCEPT ![p] = "pre"]
    /\ pc' = [pc EXCEPT ![p]["basic"] = "mkdir", ![p]["logPath"] = "abs"]
    /\ gerr' = [gerr EXCEPT ![p] = Nil]
    /\ hist' = [hist EXCEPT ![p].fsAtStart = fs]
    /\ UNCHANGED <<flags, exe, fs, ctx, loc, ret>>

\* PreSetup: g.Wait() returns the group's error once both tasks are done
PreSetupReturn(p) ==
    /\ phase[p] = "pre"
    /\ \A t \in PreTasks : pc[p][t] = "done"
    /\ ret' = [ret EXCEPT ![p].PreSetup = gerr[p]]
    /\ phase' = [phase EXCEPT ![p] = IF gerr[p] = Nil THEN "preDone" ELSE "aborted"]
    /\ UNCHANGED <<flags, exe, fs, ctx, pc, loc, gerr, hist>>

\* Setup: a new errgroup, g.Go of socketPath, ssh, sshPort and target
SetupCall(p) ==
    /\ phase[p] = "preDone"
    /\ phase' = [phase EXCEPT ![p] = "setup"]
    /\ pc' = [pc EXCEPT ![p]["socketPath"] = "abs", ![p]["ssh"] = "abs",
                          ![p]["sshPort"] = "find", ![p]["target"] = "abs"]
    /\ gerr' = [gerr EXCEPT ![p] = Nil]
    /\ hist' = [hist EXCEPT ![p].fsAtSetup = fs]
    /\ UNCHANGED <<flags, exe, fs, ctx, loc, ret>>

\* a bug: Setup returns as soon as a task has failed, the others still running
SetupReturnEarly(p) ==
    /\ phase[p] = "setup"
    /\ \/ \A t \in SetupTasks : pc[p][t] = "done"
       \/ gerr[p] # Nil
    /\ ret' = [ret EXCEPT ![p].Setup = gerr[p]]
    /\ phase' = [phase EXCEPT ![p] = "done"]
    /\ UNCHANGED <<flags, exe, fs, ctx, pc, loc, gerr, hist>>

\* Setup: g.Wait() returns the group's error once the four tasks are done
SetupReturn(p) ==
    /\ phase[p] = "setup"
    /\ \A t \in SetupTasks : pc[p][t] = "done"
    /\ ret' = [ret EXCEPT ![p].Setup = gerr[p]]
    /\ phase' = [phase EXCEPT ![p] = "done"]
    /\ UNCHANGED <<flags, exe, fs, ctx, pc, loc, gerr, hist>>

----------------------------------------------------------------------------
(* PreSetup: the tasks basic and logPath *)

\* strings.ToLower(filepath.EvalSymlinks(os.Executable()))
ExecutablePathOf(raw) == ToLower(EvalSymlinks(raw))

\* a bug: the name is left out of the lock file
LockFileNoName(exePath, name) ==
    [dir |-> <<"tmp", "ovm">>, file |-> Md5Hex(exePath) \o <<".pid">>]

\* a bug: the hash is left out of the lock file
LockFileNoHash(exePath, name) ==
    [dir |-> <<"tmp", "ovm">>, file |-> <<"-", name, ".pid">>]

\* "/tmp/ovm/" + hash + "-" + name + ".pid", hash the md5 of the executable path
LockFileOf(exePath, name) ==
    [dir |-> <<"tmp", "ovm">>, file |-> Md5Hex(exePath) \o <<"-", name, ".pid">>]

\* basic, lines 83-94: the flags are copied and /tmp/ovm is created
BasicFields(c, fl) ==
    [c EXCEPT !.Name = fl.name, !.CPUS = fl.cpus,
              !.MemoryBytes = fl.memory * 1024 * 1024,
              !.IsCliMode = fl.cliMode, !.BindPID = fl.bindPID,
              !.EventSocketPath = fl.eventSocketPath,
              !.PowerSaveMode = fl.powerSaveMode, !.KernelDebug = fl.kernelDebug]

basicMkdir(p) ==
    /\ pc[p]["basic"] = "mkdir"
    /\ ctx' = [ctx EXCEPT ![p] = BasicFields(@, flags)]
    /\ \E io \in IOChoices(p) :
          IF MkdirAllOk(fs, AbsP(<<"tmp", "ovm">>)) /\ ~io
          THEN /\ fs' = MkdirAll(fs, AbsP(<<"tmp", "ovm">>), PreStamp(p))
               /\ pc' = [pc EXCEPT ![p]["basic"] = "exe"]
               /\ UNCHANGED <<gerr, hist>>
          ELSE /\ Report(p, "basic", Errno("mkdir /tmp/ovm", io, "not a directory"))
               /\ hist' = [hist EXCEPT ![p] = Observe(@, "basic", Errno("mkdir /tmp/ovm", io, "not a directory"))]
               /\ UNCHANGED fs
    /\ UNCHANGED <<flags, exe, phase, loc, ret>>

\* basic, lines 96-111: the executable path and the lock file
basicExe(p) ==
    /\ pc[p]["basic"] = "exe"
    /\ \/ /\ CanFault(p)
          /\ Report(p, "basic", "get executable path error")
          /\ hist' = [hist EXCEPT ![p] = Observe(@, "basic", "get executable path error")]
          /\ UNCHANGED ctx
       \/ /\ CanFault(p)
          /\ Report(p, "basic", "eval symlink error")
          /\ hist' = [hist EXCEPT ![p] = Observe(@, "basic", "eval symlink error")]
          /\ UNCHANGED ctx
       \/ /\ ctx' = [ctx EXCEPT
                       ![p].ExecutablePath = ExecutablePathOf(exe[p]),
                       ![p].LockFile = LockFileOf(ExecutablePathOf(exe[p]), flags.name)]
          /\ Report(p, "basic", Nil)
          /\ UNCHANGED hist
    /\ UNCHANGED <<flags, exe, fs, phase, loc, ret>>

\* logPath, lines 204-213.  filepath.Abs fails only when the working directory
\* of a relative path cannot be read.
logPath(p) ==
    /\ pc[p]["logPath"] = "abs"
    /\ \/ /\ ~flags.logPath.abs
          /\ CanFault(p)
          /\ Report(p, "logPath", "logPath: getwd")
          /\ hist' = [hist EXCEPT ![p] = Observe(@, "logPath", "logPath: getwd")]
          /\ UNCHANGED <<ctx, fs>>
       \/ /\ ctx' = [ctx EXCEPT ![p].LogPath = Abs(flags.logPath)]
          /\ \E io \in IOChoices(p) :
                IF MkdirAllOk(fs, Abs(flags.logPath)) /\ ~io
                THEN /\ fs' = MkdirAll(fs, Abs(flags.logPath), PreStamp(p))
                     /\ Report(p, "logPath", Nil)
                     /\ UNCHANGED hist
                ELSE /\ Report(p, "logPath", Errno("logPath: mkdir", io, "not a directory"))
                     /\ hist' = [hist EXCEPT ![p] = Observe(@, "logPath", Errno("logPath: mkdir", io, "not a directory"))]
                     /\ UNCHANGED fs
    /\ UNCHANGED <<flags, exe, phase, loc, ret>>

----------------------------------------------------------------------------
(* Setup: the task socketPath *)

\* lines 120-127: the socket directory and the seven socket paths
SocketFields(c, dir, name) ==
    [c EXCEPT !.SocketPath = dir,
              !.ForwardSocketPath = Join(dir, name \o "-podman.sock"),
              !.SocketNetworkPath = Join(dir, name \o "-vfkit-network.sock"),
              !.SocketInitrdVSockPath = Join(dir, name \o "-initrd-vsock.sock"),
              !.SocketReadyPath = Join(dir, name \o "-ready.sock"),
              !.RestfulSocketPath = Join(dir, name \o "-restful.sock"),
              !.TimeSyncSocketPath = Join(dir, name \o "-sync-time.sock"),
              !.SSHAuthSocketPath = Join(dir, name \o "-ssh-auth.sock")]

\* a bug: the endpoint is made of the podman socket
EndpointOfForward(c) == [scheme |-> "unix://", path |-> c.ForwardSocketPath]

\* line 129: "unix://" + c.SocketNetworkPath
EndpointOf(c) == [scheme |-> "unix://", path |-> c.SocketNetworkPath]

\* lines 115-127
socketPathAbs(p) ==
    /\ pc[p]["socketPath"] = "abs"
    /\ \/ /\ ~flags.socketPath.abs
          /\ CanFault(p)
          /\ Report(p, "socketPath", "socketPath: getwd")
          /\ hist' = [hist EXCEPT ![p] = Observe(@, "socketPath", "socketPath: getwd")]
          /\ UNCHANGED ctx
       \/ /\ ctx' = [ctx EXCEPT ![p] = SocketFields(@, Abs(flags.socketPath), flags.name)]
          /\ pc' = [pc EXCEPT ![p]["socketPath"] = "endpoint"]
          /\ UNCHANGED <<gerr, hist>>
    /\ UNCHANGED <<flags, exe, fs, phase, loc, ret>>

\* line 129
socketPathEndpoint(p) ==
    /\ pc[p]["socketPath"] = "endpoint"
    /\ ctx' = [ctx EXCEPT ![p].Endpoint = EndpointOf(ctx[p])]
    /\ pc' = [pc EXCEPT ![p]["socketPath"] = "remove"]
    /\ UNCHANGED <<flags, exe, fs, phase, loc, gerr, ret, hist>>

\* a bug: only an empty directory is removed (os.Remove)
SocketResetShallow(f, dir) ==
    IF \E n \in f : IsPrefix(dir.segs, n.path) /\ n.path # dir.segs THEN f ELSE RemoveAll(f, dir)

\* line 131: what os.RemoveAll(c.SocketPath) leaves of the filesystem
SocketReset(f, dir) == RemoveAll(f, dir)

\* a bug: when os.RemoveAll fails the socket fields of the Context are cleared
socketPathRemoveRollback(p) ==
    /\ pc[p]["socketPath"] = "remove"
    /\ \/ /\ CanFault(p)
          /\ Report(p, "socketPath", "socketPath: removeall")
          /\ hist' = [hist EXCEPT ![p] = Observe(@, "socketPath", "socketPath: removeall")]
          /\ ctx' = [ctx EXCEPT ![p] = [SocketFields(@, EmptyPath, "")
                                           EXCEPT !.SocketPath = EmptyPath,
                                                  !.ForwardSocketPath = EmptyPath,
                                                  !.SocketNetworkPath = EmptyPath,
                                                  !.SocketInitrdVSockPath = EmptyPath,
                                                  !.SocketReadyPath = EmptyPath,
                                                  !.RestfulSocketPath = EmptyPath,
                                                  !.TimeSyncSocketPath = EmptyPath,
                                                  !.SSHAuthSocketPath = EmptyPath,
                                                  !.Endpoint = NoEndpoint]]
          /\ UNCHANGED fs
       \/ /\ fs' = SocketReset(fs, ctx[p].SocketPath)
          /\ pc' = [pc EXCEPT ![p]["socketPath"] = "mkdir"]
          /\ UNCHANGED <<gerr, hist, ctx>>
    /\ UNCHANGED <<flags, exe, phase, loc, ret>>

\* lines 131-133: os.RemoveAll(c.SocketPath)
socketPathRemove(p) ==
    /\ pc[p]["socketPath"] = "remove"
    /\ \/ /\ CanFault(p)
          /\ Report(p, "socketPath", "socketPath: removeall")
          /\ hist' = [hist EXCEPT ![p] = Observe(@, "socketPath", "socketPath: removeall")]
          /\ UNCHANGED fs
       \/ /\ fs' = SocketReset(fs, ctx[p].SocketPath)
          /\ pc' = [pc EXCEPT ![p]["socketPath"] = "mkdir"]
          /\ UNCHANGED <<gerr, hist>>
    /\ UNCHANGED <<flags, exe, ctx, phase, loc, ret>>

\* lines 135-139: os.MkdirAll(c.SocketPath, 0755)
socketPathMkdir(p) ==
    /\ pc[p]["socketPath"] = "mkdir"
    /\ \E io \in IOChoices(p) :
          IF MkdirAllOk(fs, ctx[p].SocketPath) /\ ~io
          THEN /\ fs' = MkdirAll(fs, ctx[p].SocketPath, SetupStamp(p))
               /\ Report(p, "socketPath", Nil)
               /\ UNCHANGED hist
          ELSE /\ Report(p, "socketPath", Errno("socketPath: mkdir", io, "not a directory"))
               /\ hist' = [hist EXCEPT ![p] = Observe(@, "socketPath", Errno("socketPath: mkdir", io, "not a directory"))]
               /\ UNCHANGED fs
    /\ UNCHANGED <<flags, exe, ctx, phase, loc, ret>>

----------------------------------------------------------------------------
(* Setup: the task ssh *)

\* lines 148-150: the key directory and the two key file paths
SSHFields(c, dir, name) ==
    [c EXCEPT !.SSHKeyPath = dir,
              !.SSHPrivateKeyPath = Join(dir, name),
              !.SSHPublicKeyPath = Join(dir, name \o ".pub")]

\* utils.GenerateSSHKey(dir, name) can write the pair: dir is a directory and
\* neither key path is a directory
GenerateSSHKeyOk(f, dir, name) ==
    /\ WriteOk(f, Join(dir, name))
    /\ WriteOk(f, Join(dir, name \o ".pub"))

\* utils.GenerateSSHKey(dir, name) writes a fresh private key at dir/name
WritePrivateKey(f, dir, name, by) == WriteFile(f, Join(dir, name), by, PrivData(by), 0)

\* and then the public key of it at dir/name.pub
WritePublicKey(f, dir, name, by) ==
    WriteFile(f, Join(dir, name \o ".pub"), by, PubData(by), 0)

\* utils.GenerateSSHKey(dir, name): what the two writes leave when nothing comes
\* between them
GenerateSSHKey(f, dir, name, by) ==
    WritePublicKey(WritePrivateKey(f, dir, name, by), dir, name, by)

\* lines 143-154: the paths, and os.MkdirAll(p, 0700)
sshAbs(p) ==
    /\ pc[p]["ssh"] = "abs"
    /\ \/ /\ ~flags.sshKeyPath.abs
          /\ CanFault(p)
          /\ Report(p, "ssh", "ssh: getwd")
          /\ hist' = [hist EXCEPT ![p] = Observe(@, "ssh", "ssh: getwd")]
          /\ UNCHANGED <<ctx, fs, loc>>
       \/ /\ ctx' = [ctx EXCEPT ![p] = SSHFields(@, Abs(flags.sshKeyPath), flags.name)]
          /\ \E io \in IOChoices(p) :
                IF MkdirAllOk(fs, Abs(flags.sshKeyPath)) /\ ~io
                THEN /\ fs' = MkdirAll(fs, Abs(flags.sshKeyPath), SetupStamp(p))
                     /\ pc' = [pc EXCEPT ![p]["ssh"] = "probe"]
                     /\ loc' = [loc EXCEPT ![p] = ZeroLocals]
                     /\ UNCHANGED <<gerr, hist>>
                ELSE /\ Report(p, "ssh", Errno("ssh: mkdir", io, "not a directory"))
                     /\ hist' = [hist EXCEPT ![p] = Observe(@, "ssh", Errno("ssh: mkdir", io, "not a directory"))]
                     /\ UNCHANGED <<fs, loc>>
    /\ UNCHANGED <<flags, exe, phase, ret>>

\* lines 158-161: the goroutine that stats the private key
sshStatPrivate(p) ==
    /\ pc[p]["ssh"] = "probe"
    /\ loc[p].statPriv = "todo"
    /\ loc' = [loc EXCEPT ![p].statPriv =
                  IF StatOk(fs, ctx[p].SSHPrivateKeyPath) THEN "ok" ELSE "err"]
    /\ UNCHANGED <<flags, exe, fs, ctx, phase, pc, gerr, ret, hist>>

\* lines 162-165: the goroutine that stats the public key
sshStatPublic(p) ==
    /\ pc[p]["ssh"] = "probe"
    /\ loc[p].statPub = "todo"
    /\ loc' = [loc EXCEPT ![p].statPub =
                  IF StatOk(fs, ctx[p].SSHPublicKeyPath) THEN "ok" ELSE "err"]
    /\ UNCHANGED <<flags, exe, fs, ctx, phase, pc, gerr, ret, hist>>

\* a bug: the inner group returns at the first stat that failed, the other stat
\* still running
ProbesDoneFirstError(p) ==
    /\ pc[p]["ssh"] = "probe"
    /\ \/ loc[p].statPriv # "todo" /\ loc[p].statPub # "todo"
       \/ loc[p].statPriv = "err"
       \/ loc[p].statPub = "err"

\* a bug: the inner group returns only when both stats succeeded
ProbesDoneBothOk(p) ==
    pc[p]["ssh"] = "probe" /\ loc[p].statPriv = "ok" /\ loc[p].statPub = "ok"

\* line 166: g.Wait() of the inner group returns: both goroutines are done
ProbesDone(p) ==
    pc[p]["ssh"] = "probe" /\ loc[p].statPriv # "todo" /\ loc[p].statPub # "todo"
\* a bug: the keys are taken for broken whatever the stats say
ProbesFailedAlways(p) == TRUE

\* a bug: the private key is not looked at
ProbesFailedPublicOnly(p) == loc[p].statPub = "err"

\* line 166: the inner group returns an error when either stat failed
ProbesFailed(p) == loc[p].statPriv = "err" \/ loc[p].statPub = "err"

\* a bug: the error of os.RemoveAll of the private key is returned
sshRemovePrivateChecked(p) ==
    /\ ProbesDone(p)
    /\ ProbesFailed(p)
    /\ \/ /\ fs' = RemoveAll(fs, ctx[p].SSHPrivateKeyPath)
          /\ pc' = [pc EXCEPT ![p]["ssh"] = "rmPub"]
          /\ UNCHANGED <<hist, gerr>>
       \/ /\ CanFault(p)
          /\ Exists(fs, ctx[p].SSHPrivateKeyPath.segs)
          /\ Report(p, "ssh", "ssh: removeall: input/output error")
          /\ hist' = [hist EXCEPT ![p] = Observe([@ EXCEPT !.faults = @ + 1],
                                                 "ssh", "ssh: removeall: input/output error")]
          /\ UNCHANGED fs
    /\ UNCHANGED <<flags, exe, ctx, phase, loc, ret>>

\* lines 166-167: a stat failed; os.RemoveAll of the private key, its error dropped
\* (a failed removal leaves the entry)
sshRemovePrivate(p) ==
    /\ ProbesDone(p)
    /\ ProbesFailed(p)
    /\ \/ /\ fs' = RemoveAll(fs, ctx[p].SSHPrivateKeyPath)
          /\ UNCHANGED hist
       \/ /\ CanFault(p)
          /\ Exists(fs, ctx[p].SSHPrivateKeyPath.segs)
          /\ hist' = [hist EXCEPT ![p].faults = @ + 1]
          /\ UNCHANGED fs
    /\ pc' = [pc EXCEPT ![p]["ssh"] = "rmPub"]
    /\ UNCHANGED <<flags, exe, ctx, phase, loc, gerr, ret>>

\* line 168: os.RemoveAll of the public key, its error dropped
sshRemovePublic(p) ==
    /\ pc[p]["ssh"] = "rmPub"
    /\ \/ /\ fs' = RemoveAll(fs, ctx[p].SSHPublicKeyPath)
          /\ UNCHANGED hist
       \/ /\ CanFault(p)
          /\ Exists(fs, ctx[p].SSHPublicKeyPath.segs)
          /\ hist' = [hist EXCEPT ![p].faults = @ + 1]
          /\ UNCHANGED fs
    /\ pc' = [pc EXCEPT ![p]["ssh"] = "gen"]
    /\ UNCHANGED <<flags, exe, ctx, phase, loc, gerr, ret>>

\* lines 169-171: utils.GenerateSSHKey(c.SSHKeyPath, name) is called and writes
\* the private key; the two key files are written one after the other
sshGenerate(p) ==
    /\ pc[p]["ssh"] = "gen"
    /\ \E io \in IOChoices(p) :
          IF WriteOk(fs, ctx[p].SSHPrivateKeyPath) /\ ~io
          THEN /\ fs' = WritePrivateKey(fs, ctx[p].SSHKeyPath, flags.name, SetupStamp(p))
               /\ pc' = [pc EXCEPT ![p]["ssh"] = "genPub"]
               /\ hist' = [hist EXCEPT ![p].genCalls = @ + 1]
               /\ UNCHANGED gerr
          ELSE /\ Report(p, "ssh", Errno("ssh: generate key", io, "cannot write key"))
               /\ hist' = [hist EXCEPT
                              ![p] = Observe([@ EXCEPT !.genCalls = @ + 1],
                                             "ssh", Errno("ssh: generate key", io, "cannot write key"))]
               /\ UNCHANGED fs
    /\ UNCHANGED <<flags, exe, ctx, phase, loc, ret>>

\* lines 169-171: utils.GenerateSSHKey writes the public key and returns
sshGeneratePublic(p) ==
    /\ pc[p]["ssh"] = "genPub"
    /\ \E io \in IOChoices(p) :
          IF WriteOk(fs, ctx[p].SSHPublicKeyPath) /\ ~io
          THEN /\ fs' = WritePublicKey(fs, ctx[p].SSHKeyPath, flags.name, SetupStamp(p))
               /\ pc' = [pc EXCEPT ![p]["ssh"] = "open"]
               /\ UNCHANGED <<gerr, hist>>
          ELSE /\ Report(p, "ssh", Errno("ssh: generate key", io, "cannot write key"))
               /\ hist' = [hist EXCEPT ![p] = Observe(@, "ssh", Errno("ssh: generate key", io, "cannot write key"))]
               /\ UNCHANGED fs
    /\ UNCHANGED <<flags, exe, ctx, phase, loc, ret>>

\* os.Open succeeds on a file and on a directory
OpenOk(f, path) == \E n \in f : n.path = path.segs /\ n.kind \in {"file", "dir"}

\* lines 176-180: os.Open(c.SSHPublicKeyPath), reached with both stats good or
\* after the key generation
sshOpen(p) ==
    /\ \/ ProbesDone(p) /\ ~ProbesFailed(p)
       \/ pc[p]["ssh"] = "open"
    /\ \E io \in IOChoices(p) :
          IF OpenOk(fs, ctx[p].SSHPublicKeyPath) /\ ~io
          THEN /\ loc' = [loc EXCEPT ![p].fd = NodeAt(fs, ctx[p].SSHPublicKeyPath.segs)]
               /\ pc' = [pc EXCEPT ![p]["ssh"] = "read"]
               /\ UNCHANGED <<gerr, hist>>
          ELSE /\ Report(p, "ssh", Errno("ssh: open public key", io, "no such file"))
               /\ hist' = [hist EXCEPT ![p] = Observe(@, "ssh", Errno("ssh: open public key", io, "no such file"))]
               /\ UNCHANGED loc
    /\ UNCHANGED <<flags, exe, fs, ctx, phase, ret>>

\* lines 182-190: io.ReadAll(f), strings.TrimSpace, and the deferred f.Close()
sshRead(p) ==
    /\ pc[p]["ssh"] = "read"
    /\ \E io \in IOChoices(p) :
          IF loc[p].fd.kind = "file" /\ ~io
          THEN /\ ctx' = [ctx EXCEPT ![p].SSHPublicKey = TrimSpace(loc[p].fd.data)]
               /\ Report(p, "ssh", Nil)
               /\ UNCHANGED hist
          ELSE /\ Report(p, "ssh", Errno("ssh: read public key", io, "is a directory"))
               /\ hist' = [hist EXCEPT ![p] = Observe(@, "ssh", Errno("ssh: read public key", io, "is a directory"))]
               /\ UNCHANGED ctx
    /\ UNCHANGED <<flags, exe, fs, phase, loc, ret>>

----------------------------------------------------------------------------
(* Setup: the task sshPort *)

\* a bug: the probe is asked for the port after the preferred one
PreferredPortNext == 2233 + 1

\* the port sshPort prefers
PreferredPort == 2233

\* the ports the probe tries: the preferred one and the ones after it
PortRange(preferred) == preferred..(preferred + MaxPortSpan - 1)

\* utils.FindUsablePort(preferred) with the ports of occupied bound by others:
\* the first free port of the range, 0 when every port of the range is occupied
FindUsablePort(preferred, occupied) ==
    IF PortRange(preferred) \subseteq occupied THEN 0
    ELSE CHOOSE q \in PortRange(preferred) \ occupied :
             \A r \in PortRange(preferred) \ occupied : q <= r

\* lines 194-201
sshPort(p) ==
    /\ pc[p]["sshPort"] = "find"
    /\ \E occupied \in SUBSET PortRange(PreferredPort) :
          LET port == FindUsablePort(PreferredPort, occupied)
              probe == [asked |-> PreferredPort,
                        preferredBusy |-> PreferredPort \in occupied,
                        allBusy |-> PortRange(PreferredPort) \subseteq occupied,
                        free |-> port \notin occupied]
          IN IF port = 0
             THEN /\ Report(p, "sshPort", "no usable port")
                  /\ hist' = [hist EXCEPT
                                 ![p] = Observe([@ EXCEPT !.probe = probe],
                                                "sshPort", "no usable port")]
                  /\ UNCHANGED ctx
             ELSE /\ ctx' = [ctx EXCEPT ![p].SSHPort = port]
                  /\ Report(p, "sshPort", Nil)
                  /\ hist' = [hist EXCEPT ![p].probe = probe]
    /\ UNCHANGED <<flags, exe, fs, phase, loc, ret>>

----------------------------------------------------------------------------
(* Setup: the task target *)

\* a bug: the target task also assigns the log directory
TargetFieldsAlsoLog(c, fl) ==
    [c EXCEPT !.VersionsPath = Join(c.TargetPath, "versions.json"),
              !.KernelPath = Join(c.TargetPath, Base(fl.kernelPath)),
              !.InitrdPath = Join(c.TargetPath, Base(fl.initrdPath)),
              !.RootfsPath = Join(c.TargetPath, Base(fl.rootfsPath)),
              !.DiskDataPath = Join(c.TargetPath, "data.img"),
              !.DiskTmpPath = Join(c.TargetPath, "tmp.img"),
              !.LogPath = Join(c.TargetPath, "log")]

\* lines 226-231: the paths below the target directory
TargetFields(c, fl) ==
    [c EXCEPT !.VersionsPath = Join(c.TargetPath, "versions.json"),
              !.KernelPath = Join(c.TargetPath, Base(fl.kernelPath)),
              !.InitrdPath = Join(c.TargetPath, Base(fl.initrdPath)),
              !.RootfsPath = Join(c.TargetPath, Base(fl.rootfsPath)),
              !.DiskDataPath = Join(c.TargetPath, "data.img"),
              !.DiskTmpPath = Join(c.TargetPath, "tmp.img")]

\* the files target.handle answers for: the boot assets, the manifest, the data disk
AssetPaths(c) == {c.KernelPath, c.InitrdPath, c.RootfsPath, c.VersionsPath, c.DiskDataPath}

\* target.handle can succeed: the target directory is there
HandleOk(f, c) == IsDir(f, c.TargetPath.segs)

\* target.handle: on success every asset is present; what is present is kept
Handle(f, c, by) ==
    f \cup {Node(a.segs, "file", by, <<>>, 0) : a \in {b \in AssetPaths(c) : ~Exists(f, b.segs)}}

\* the size CreateSparseFile is asked for, 1*1024*1024*1024*1024 bytes, in MiB
TmpDiskMiB == 1 * 1024 * 1024

\* utils.CreateSparseFile(path, size): a file of that logical size at path
CreateSparseFile(f, path, size, by) == WriteFile(f, path, by, <<>>, size)

\* lines 216-224: the target directory
targetAbs(p) ==
    /\ pc[p]["target"] = "abs"
    /\ \/ /\ ~flags.targetPath.abs
          /\ CanFault(p)
          /\ Report(p, "target", "target: getwd")
          /\ hist' = [hist EXCEPT ![p] = Observe(@, "target", "target: getwd")]
          /\ UNCHANGED <<ctx, fs>>
       \/ /\ ctx' = [ctx EXCEPT ![p].TargetPath = Abs(flags.targetPath)]
          /\ \E io \in IOChoices(p) :
                IF MkdirAllOk(fs, Abs(flags.targetPath)) /\ ~io
                THEN /\ fs' = MkdirAll(fs, Abs(flags.targetPath), SetupStamp(p))
                     /\ pc' = [pc EXCEPT ![p]["target"] = "new"]
                     /\ UNCHANGED <<gerr, hist>>
                ELSE /\ Report(p, "target", Errno("target: mkdir", io, "not a directory"))
                     /\ hist' = [hist EXCEPT ![p] = Observe(@, "target", Errno("target: mkdir", io, "not a directory"))]
                     /\ UNCHANGED fs
    /\ UNCHANGED <<flags, exe, phase, loc, ret>>

\* a bug: the scratch disk is looked at right after newTarget, before target.handle
targetNewThenDisk(p) ==
    /\ pc[p]["target"] = "new"
    /\ ctx' = [ctx EXCEPT ![p] = TargetFields(@, flags)]
    /\ \/ /\ CanFault(p)
          /\ Report(p, "target", "target: newTarget")
          /\ hist' = [hist EXCEPT ![p] = Observe(@, "target", "target: newTarget")]
       \/ /\ pc' = [pc EXCEPT ![p]["target"] = "stat"]
          /\ UNCHANGED <<gerr, hist>>
    /\ UNCHANGED <<flags, exe, fs, phase, loc, ret>>

\* lines 226-236: the asset paths, and newTarget
targetNew(p) ==
    /\ pc[p]["target"] = "new"
    /\ ctx' = [ctx EXCEPT ![p] = TargetFields(@, flags)]
    /\ \/ /\ CanFault(p)
          /\ Report(p, "target", "target: newTarget")
          /\ hist' = [hist EXCEPT ![p] = Observe(@, "target", "target: newTarget")]
       \/ /\ pc' = [pc EXCEPT ![p]["target"] = "handle"]
          /\ UNCHANGED <<gerr, hist>>
    /\ UNCHANGED <<flags, exe, fs, phase, loc, ret>>

\* lines 238-240: target.handle()
targetHandle(p) ==
    /\ pc[p]["target"] = "handle"
    /\ \E io \in IOChoices(p) :
          IF HandleOk(fs, ctx[p]) /\ ~io
          THEN /\ fs' = Handle(fs, ctx[p], SetupStamp(p))
               /\ pc' = [pc EXCEPT ![p]["target"] = "stat"]
               /\ UNCHANGED <<gerr, hist>>
          ELSE /\ Report(p, "target", Errno("target: handle", io, "no target directory"))
               /\ hist' = [hist EXCEPT ![p] = Observe(@, "target", Errno("target: handle", io, "no target directory"))]
               /\ UNCHANGED fs
    /\ UNCHANGED <<flags, exe, ctx, phase, loc, ret>>

\* a bug: the scratch disk is allocated without looking
DiskPresentNever(f, path) == FALSE

\* line 242: os.Stat(c.DiskTmpPath) returns no error
DiskPresent(f, path) == StatOk(f, path)

\* line 242: os.Stat(c.DiskTmpPath); the task is done when the disk is there
targetStat(p) ==
    /\ pc[p]["target"] = "stat"
    /\ IF DiskPresent(fs, ctx[p].DiskTmpPath)
       THEN Report(p, "target", Nil)
       ELSE pc' = [pc EXCEPT ![p]["target"] = "create"] /\ UNCHANGED gerr
    /\ UNCHANGED <<flags, exe, fs, ctx, phase, loc, ret, hist>>

\* lines 243-248: utils.CreateSparseFile(c.DiskTmpPath, 1 TiB)
targetCreate(p) ==
    /\ pc[p]["target"] = "create"
    /\ \E io \in IOChoices(p) :
          IF WriteOk(fs, ctx[p].DiskTmpPath) /\ ~io
          THEN /\ fs' = CreateSparseFile(fs, ctx[p].DiskTmpPath, TmpDiskMiB, SetupStamp(p))
               /\ Report(p, "target", Nil)
               /\ hist' = [hist EXCEPT ![p].sparseCalls = @ + 1]
          ELSE /\ Report(p, "target", Errno("target: create sparse file", io, "no such directory"))
               /\ hist' = [hist EXCEPT
                              ![p] = Observe([@ EXCEPT !.sparseCalls = @ + 1],
                                             "target", Errno("target: create sparse file", io, "no such directory"))]
               /\ UNCHANGED fs
    /\ UNCHANGED <<flags, exe, ctx, phase, loc, ret>>

----------------------------------------------------------------------------
(* The specifications *)

PreSetupStep(p) ==
    \/ PreSetupCall(p)
    \/ basicMkdir(p)
    \/ basicExe(p)
    \/ logPath(p)
    \/ PreSetupReturn(p)

SetupStep(p) ==
    \/ SetupCall(p)
    \/ socketPathAbs(p)
    \/ socketPathEndpoint(p)
    \/ socketPathRemove(p)
    \/ socketPathMkdir(p)
    \/ sshAbs(p)
    \/ sshStatPrivate(p)
    \/ sshStatPublic(p)
    \/ sshRemovePrivate(p)
    \/ sshRemovePublic(p)
    \/ sshGenerate(p)
    \/ sshGeneratePublic(p)
    \/ sshOpen(p)
    \/ sshRead(p)
    \/ sshPort(p)
    \/ targetAbs(p)
    \/ targetNew(p)
    \/ targetHandle(p)
    \/ targetStat(p)
    \/ targetCreate(p)
    \/ SetupReturn(p)

\* the bootstrap of process p has returned from Setup without error
Bootstrapped(p) == phase[p] = "done" /\ ret[p].Setup = Nil

\* one bootstrap after the other: a process starts once the one before it has
\* bootstrapped, run its machine and exited
InTurn(p) == IF p = 1 \/ phase[p] # "new" THEN TRUE ELSE phase[p - 1] = "exited"

\* after the bootstrap the machine is started and listens on its network socket,
\* and the process exits: the socket stays behind in the socket directory, the
\* Context is gone
Listen(p) ==
    /\ Bootstrapped(p)
    /\ WriteOk(fs, ctx[p].SocketNetworkPath)
    /\ fs' = WriteFile(fs, ctx[p].SocketNetworkPath, SetupStamp(p), <<"socket">>, 0)
    /\ phase' = [phase EXCEPT ![p] = "exited"]
    /\ ctx' = [ctx EXCEPT ![p] = ZeroContext]
    /\ pc' = [pc EXCEPT ![p] = [t \in Tasks |-> "idle"]]
    /\ loc' = [loc EXCEPT ![p] = ZeroLocals]
    /\ ret' = [ret EXCEPT ![p] = [PreSetup |-> Pending, Setup |-> Pending]]
    /\ hist' = [hist EXCEPT ![p] = ZeroHist]
    /\ UNCHANGED <<flags, exe, gerr>>

Init == InitWith({"vm"}, Layouts, Starts, {ExeLink})

\* one bootstrap
Next == PreSetupStep(1) \/ SetupStep(1)

Spec == Init /\ [][Next]_vars

\* the bootstrap run again after it succeeded, against the same flags
InitTwice ==
    InitWith({"vm"}, {LayoutRelative, LayoutSSHInSocket},
             {<<TRUE, "file", "file">>, <<FALSE, "file", "none">>, <<FALSE, "none", "none">>,
              <<FALSE, "file", "other">>},
             {ExeLink})

NextTwice ==
    \E p \in Procs :
        \/ InTurn(p) /\ PreSetupStep(p)
        \/ InTurn(p) /\ SetupStep(p)
        \/ Listen(p)

SpecTwice == InitTwice /\ [][NextTwice]_vars

\* several bootstraps, each by its own executable path, up to the return of
\* PreSetup; the first two run at once, a later one starts once those before it
\* have returned from PreSetup with nil
InitLock == InitWith(Names, {LayoutRelative}, {<<FALSE, "none", "none">>}, ExePaths)

InPair(p) == IF p <= 2 THEN TRUE ELSE \A q \in 1..(p - 1) : ret[q].PreSetup = Nil

NextLock == \E p \in Procs : InPair(p) /\ PreSetupStep(p)

SpecLock == InitLock /\ [][NextLock]_vars

\* several bootstraps on the same SSH directory and name with no lock held: their
\* PreSetup calls one after the other, then the ssh tasks of their Setup calls at
\* once (the other tasks of Setup are left where they start); the first two run
\* at once, a later one starts once the ssh tasks of those before it are done
InitRace ==
    InitWith({"vm"}, {LayoutRelative},
             {<<FALSE, "none", "none">>, <<FALSE, "none", "file">>, <<FALSE, "file", "file">>},
             {ExeLink})

InOrder(p) ==
    IF p = 1 \/ phase[p] # "new" THEN TRUE
    ELSE IF p = 2 THEN ret[1].PreSetup = Nil
    ELSE \A q \in 1..(p - 1) : pc[q]["ssh"] = "done"

SSHStep(p) ==
    \/ sshAbs(p)
    \/ sshStatPrivate(p)
    \/ sshStatPublic(p)
    \/ sshRemovePrivate(p)
    \/ sshRemovePublic(p)
    \/ sshGenerate(p)
    \/ sshGeneratePublic(p)
    \/ sshOpen(p)
    \/ sshRead(p)

NextRace ==
    \E p \in Procs :
        \/ InOrder(p) /\ PreSetupStep(p)
        \/ SetupCall(p)
        \/ SSHStep(p)

SpecRace == InitRace /\ [][NextRace]_vars

----------------------------------------------------------------------------
(* What the claims speak of *)

SocketDir == Abs(flags.socketPath)
SSHDir == Abs(flags.sshKeyPath)
LogDir == Abs(flags.logPath)
TargetDir == Abs(flags.targetPath)

\* no two of the four directories are equal or nested
Apart ==
    /\ ~Overlap(SocketDir, SSHDir)
    /\ ~Overlap(SocketDir, LogDir)
    /\ ~Overlap(SocketDir, TargetDir)
    /\ ~Overlap(SSHDir, LogDir)
    /\ ~Overlap(SSHDir, TargetDir)
    /\ ~Overlap(LogDir, TargetDir)

\* task t of process p has returned, with nil
Succeeded(p, t) == pc[p][t] = "done" /\ t \notin hist[p].failed

\* a regular file is at path in f
FileAt(f, path) == \E n \in f : n.path = path.segs /\ n.kind = "file"

\* both key files are regular files written by the key generation of the Setup
\* of process p
KeysFresh(p) ==
    /\ \E n \in fs : n.path = PrivPathOf(flags).segs /\ n.kind = "file" /\ n.by = SetupStamp(p)
    /\ \E n \in fs : n.path = PubPathOf(flags).segs /\ n.kind = "file" /\ n.by = SetupStamp(p)

\* when Setup of process p was called, a key file was missing or could not be
\* stat-ed
KeyBroken(p) ==
    \/ ~StatOk(hist[p].fsAtSetup, PrivPathOf(flags))
    \/ ~StatOk(hist[p].fsAtSetup, PubPathOf(flags))

\* C1 as stated: whenever a key file was missing or could not be stat-ed when
\* Setup was called and the ssh task has returned nil, both key files are present
\* and were written by the one key generation of this Setup.
C1_SelfHealAnyLayout ==
    \A p \in Procs :
        (Succeeded(p, "ssh") /\ KeyBroken(p))
            => (KeysFresh(p) /\ hist[p].genCalls = 1)

\* C1 (amended): the same, when the SSH directory overlaps neither the socket
\* directory nor the target directory, so that no other task of Setup removes or
\* replaces what is below it.
C1_SelfHeal ==
    \A p \in Procs :
        (/\ Succeeded(p, "ssh")
         /\ KeyBroken(p)
         /\ ~Overlap(SSHDir, SocketDir)
         /\ ~Overlap(SSHDir, TargetDir))
            => (KeysFresh(p) /\ hist[p].genCalls = 1)

\* C1 witness: the public key alone was missing, the old private key was there,
\* and after the ssh task both files are of the new generation.
C1_Witness ==
    /\ Succeeded(1, "ssh")
    /\ ~Overlap(SSHDir, SocketDir)
    /\ ~Overlap(SSHDir, TargetDir)
    /\ FileAt(hist[1].fsAtSetup, PrivPathOf(flags))
    /\ ~Exists(hist[1].fsAtSetup, PubPathOf(flags).segs)
    /\ KeysFresh(1)
    /\ hist[1].genCalls = 1

\* the seven socket path fields of a Context, and the suffix of each
SocketPathFields(c) ==
    <<c.ForwardSocketPath, c.SocketNetworkPath, c.SocketInitrdVSockPath, c.SocketReadyPath,
      c.RestfulSocketPath, c.TimeSyncSocketPath, c.SSHAuthSocketPath>>
SocketSuffixes ==
    <<"podman", "vfkit-network", "initrd-vsock", "ready", "restful", "sync-time", "ssh-auth">>

\* the Context of p holds seven different socket paths, each the socket directory
\* joined with name-suffix.sock
SevenSocketPaths(p) ==
    /\ ctx[p].SocketPath = SocketDir
    /\ \A i \in 1..7 :
          SocketPathFields(ctx[p])[i] =
              [abs |-> TRUE,
               segs |-> SocketDir.segs \o <<flags.name \o "-" \o SocketSuffixes[i] \o ".sock">>]
    /\ Cardinality({SocketPathFields(ctx[p])[i] : i \in 1..7}) = 7

\* the entries that were below the socket directory when Setup of p was called
StaleEntries(p) ==
    {n \in hist[p].fsAtSetup : IsPrefix(SocketDir.segs, n.path) /\ n.path # SocketDir.segs}

SocketIsReset(p) ==
    /\ StaleEntries(p) \cap fs = {}
    /\ IsDir(fs, SocketDir.segs)
    /\ SevenSocketPaths(p)

\* C3 as stated: once the socketPath task has returned nil, none of the entries
\* that were below the socket directory before Setup is left, the directory exists,
\* and the Context holds the seven socket paths.
C3_SocketResetAnyLayout == \A p \in Procs : Succeeded(p, "socketPath") => SocketIsReset(p)

\* C3 (amended): the same, when the socket directory is not equal to or inside
\* the SSH directory or the target directory, where the ssh and target tasks remove
\* and write entries.
C3_SocketReset ==
    \A p \in Procs :
        (/\ Succeeded(p, "socketPath")
         /\ ~IsPrefix(SSHDir.segs, SocketDir.segs)
         /\ ~IsPrefix(TargetDir.segs, SocketDir.segs))
            => SocketIsReset(p)

\* C3 witness: a stale socket was in the directory, and the directory is reset.
C3_Witness ==
    /\ Succeeded(1, "socketPath")
    /\ ~IsPrefix(SSHDir.segs, SocketDir.segs)
    /\ Exists(hist[1].fsAtSetup, StrayOf(flags).segs)
    /\ SocketIsReset(1)

\* the size of 1 TiB in MiB
OneTiB == 1024 * 1024

\* the scratch disk as it was when Setup of p was called, if a file was there
DiskBefore(p) == {n \in hist[p].fsAtSetup : n.path = DiskTmpOf(flags).segs}

ScratchDiskRule(p) ==
    /\ (DiskBefore(p) = {} /\ Succeeded(p, "target"))
          => \E n \in fs : n.path = DiskTmpOf(flags).segs /\ n.kind = "file" /\ n.size = OneTiB
    /\ DiskBefore(p) # {}
          => (hist[p].sparseCalls = 0 /\ DiskBefore(p) \subseteq fs)

\* C4 as stated: with no file at DiskTmpPath before Setup, once the target task
\* has returned nil the file is there with a size of 1 TiB; with a file there
\* before Setup, the sparse allocation is never called and the file stays as it was.
C4_ScratchDiskAnyLayout == \A p \in Procs : ScratchDiskRule(p)

\* C4 (amended): the same, when the target directory overlaps neither the socket
\* directory nor the SSH directory.
C4_ScratchDisk ==
    \A p \in Procs :
        (~Overlap(TargetDir, SocketDir) /\ ~Overlap(TargetDir, SSHDir)) => ScratchDiskRule(p)

\* C4 witness: no disk was there, and the target task has allocated it.
C4_Witness ==
    /\ Succeeded(1, "target")
    /\ ~Overlap(TargetDir, SocketDir)
    /\ DiskBefore(1) = {}
    /\ hist[1].sparseCalls = 1
    /\ \E n \in fs : n.path = DiskTmpOf(flags).segs /\ n.size = 1048576

\* the directory fields and the other path fields of a Context
DirFields(c) == {c.LogPath, c.SocketPath, c.SSHKeyPath, c.TargetPath}
DerivedPathFields(c) ==
    DirFields(c) \cup {SocketPathFields(c)[i] : i \in 1..7}
    \cup {c.SSHPrivateKeyPath, c.SSHPublicKeyPath, c.VersionsPath, c.KernelPath,
          c.InitrdPath, c.RootfsPath, c.DiskDataPath, c.DiskTmpPath}

\* the lock file and the executable path begin at the root
LockAndExeAbsolute(c) ==
    /\ c.LockFile.dir = <<"tmp", "ovm">>
    /\ c.ExecutablePath # <<>>
    /\ c.ExecutablePath[1] = "/"

\* C5 as stated: after PreSetup and Setup returned nil, every directory a
\* directory field names exists and every path field is absolute, whatever the
\* directories.
C5_PathsAnyLayout ==
    \A p \in Procs :
        Bootstrapped(p) =>
            /\ \A d \in DirFields(ctx[p]) : IsDir(fs, d.segs)
            /\ \A f \in DerivedPathFields(ctx[p]) \cup {ctx[p].EventSocketPath} : f.abs
            /\ LockAndExeAbsolute(ctx[p])

\* C5 (amended): when no two of the four directories are equal or nested, after
\* PreSetup and Setup returned nil every directory a directory field names exists
\* and every path field is absolute, except EventSocketPath, which is the
\* -event-socket-path flag as the user gave it.
C5_Paths ==
    \A p \in Procs :
        (Apart /\ Bootstrapped(p)) =>
            /\ \A d \in DirFields(ctx[p]) : IsDir(fs, d.segs)
            /\ \A f \in DerivedPathFields(ctx[p]) : f.abs /\ f.segs # <<>>
            /\ LockAndExeAbsolute(ctx[p])
            /\ ctx[p].EventSocketPath = flags.eventSocketPath

\* C5 witness: a bootstrap with relative directories that are apart.
C5_Witness ==
    /\ Apart
    /\ Bootstrapped(1)
    /\ ~flags.socketPath.abs
    /\ ~ctx[1].EventSocketPath.abs
    /\ \A d \in DirFields(ctx[1]) : IsDir(fs, d.segs)

----------------------------------------------------------------------------
(* C9: the endpoint *)

\* the endpoint "unix://" + SocketNetworkPath of the Context c
UnixEndpoint(c) == [scheme |-> "unix://", path |-> c.SocketNetworkPath]

\* the socketPath task of process p has executed line 129
EndpointAssigned(p) ==
    \/ pc[p]["socketPath"] \in {"remove", "mkdir"}
    \/ pc[p]["socketPath"] = "done" /\ ctx[p].SocketNetworkPath # EmptyPath

\* C9 as stated: in every reachable state Endpoint is "unix://" followed by the
\* current value of SocketNetworkPath.
C9_EndpointAlways == \A p \in Procs : ctx[p].Endpoint = UnixEndpoint(ctx[p])

\* C9 (amended): Endpoint is empty until the socketPath task has executed line
\* 129, also while SocketNetworkPath is set already (lines 122 to 129), and from
\* line 129 on it is "unix://" followed by SocketNetworkPath, which is the
\* socket directory joined with <name>-vfkit-network.sock.
C9_Endpoint ==
    \A p \in Procs :
        IF EndpointAssigned(p)
        THEN /\ ctx[p].Endpoint = UnixEndpoint(ctx[p])
             /\ ctx[p].SocketNetworkPath = Join(SocketDir, flags.name \o "-vfkit-network.sock")
        ELSE ctx[p].Endpoint = NoEndpoint

\* C9 witness: Setup has returned and the endpoint names the network socket.
C9_Witness ==
    /\ phase[1] = "done"
    /\ Succeeded(1, "socketPath")
    /\ ctx[1].Endpoint.scheme = "unix://"
    /\ ctx[1].Endpoint.path = Join(SocketDir, "vm-vfkit-network.sock")

----------------------------------------------------------------------------
(* C10: the SSH port *)

\* the sshPort task of process p has returned
Probed(p) == pc[p]["sshPort"] = "done"

\* what C10 says of the probe and of the port stored: 2233 is asked for; when it
\* is occupied and another port of the range is free, the port stored is free
\* and not 2233; when the whole range is occupied the task fails with the
\* exhaustion error and SSHPort stays unset
PortRule(p) ==
    /\ hist[p].probe.asked = 2233
    /\ (hist[p].probe.preferredBusy /\ ~hist[p].probe.allBusy)
          => /\ ctx[p].SSHPort \notin {0, 2233}
             /\ hist[p].probe.free
             /\ "sshPort" \notin hist[p].failed
    /\ hist[p].probe.allBusy
          => /\ "sshPort" \in hist[p].failed
             /\ ctx[p].SSHPort = 0

\* C10 as stated: the rule of the port, and when the whole range is occupied
\* Setup returns the exhaustion error of sshPort.
C10_PortErrorReturned ==
    \A p \in Procs :
        Probed(p)
            => /\ PortRule(p)
               /\ (hist[p].probe.allBusy /\ ret[p].Setup # Pending)
                     => ret[p].Setup = "no usable port"

\* C10 (amended): the rule of the port, and when the whole range is occupied
\* Setup returns an error, which is the exhaustion error of sshPort when no other
\* task of Setup failed before sshPort did.
C10_Port ==
    \A p \in Procs :
        Probed(p)
            => /\ PortRule(p)
               /\ (hist[p].probe.allBusy /\ ret[p].Setup # Pending)
                     => /\ ret[p].Setup # Nil
                        /\ hist[p].first.Setup.task = "sshPort"
                              => ret[p].Setup = "no usable port"

\* C10 witness: every port of the range was occupied, sshPort failed first and
\* Setup has returned its error.
C10_Witness ==
    /\ Probed(1)
    /\ hist[1].probe.allBusy
    /\ hist[1].first.Setup.task = "sshPort"
    /\ ctx[1].SSHPort = 0
    /\ ret[1].Setup = "no usable port"

----------------------------------------------------------------------------
(* C6: the first error wins *)

PhaseTasks(ph) == IF ph = "PreSetup" THEN PreTasks ELSE SetupTasks

\* the tasks of phase ph of process p that returned an error
FailedIn(p, ph) == hist[p].failed \cap PhaseTasks(ph)

\* what a phase that has returned returns: nil exactly when no task of it
\* failed, else the error of the task that failed first
FirstErrorReturned(p, ph) ==
    /\ ret[p][ph] = Nil <=> FailedIn(p, ph) = {}
    /\ FailedIn(p, ph) # {}
          => /\ hist[p].first[ph].task \in FailedIn(p, ph)
             /\ ret[p][ph] = hist[p].first[ph].err

\* a task that is done stays done and a task that failed is not run again
NoRetry ==
    \A p \in Procs, t \in Tasks :
        /\ pc[p][t] = "done" => pc'[p][t] = "done"
        /\ pc[p][t] # "idle" => pc'[p][t] # "idle"
        /\ t \in hist[p].failed => (t \in hist'[p].failed /\ pc'[p][t] = "done")

\* C6: PreSetup and Setup return nil if and only if every task of theirs
\* returned nil; when tasks failed, the value returned is the error of the task
\* that failed first in time; no task is retried.
C6_FirstErrorWins ==
    /\ [](\A p \in Procs, ph \in {"PreSetup", "Setup"} :
             ret[p][ph] # Pending => FirstErrorReturned(p, ph))
    /\ [][NoRetry]_vars

\* C6 witness: two tasks of Setup failed with different errors, sshPort last, and
\* Setup has returned the error of the one that failed first.
C6_Witness ==
    /\ ret[1].Setup # Pending
    /\ "sshPort" \in hist[1].failed
    /\ hist[1].first.Setup.task = "target"
    /\ ret[1].Setup = hist[1].first.Setup.err
    /\ ret[1].Setup # "no usable port"

----------------------------------------------------------------------------
(* C7, C8: the lock file *)

\* the executable path of process p with its symbolic links resolved, in lower case
ResolvedLower(p) == ToLower(EvalSymlinks(exe[p]))

\* "/tmp/ovm/" + hash(lowercase(resolved executable path)) + "-" + name + ".pid"
\* for process p
ExpectedLockFile(p) ==
    [dir |-> <<"tmp", "ovm">>,
     file |-> <<"md5">> \o ResolvedLower(p) \o <<"-", flags.name, ".pid">>]

\* C7: the basic task of any process leaves as LockFile "/tmp/ovm/" + hash of the
\* lower-cased symlink-resolved executable path + "-" + name + ".pid", whatever
\* the other flags and the interleaving; two runs by the same executable path
\* and name leave the same LockFile.
C7_LockFileDeterminism ==
    \A p, q \in Procs :
        /\ Succeeded(p, "basic") => ctx[p].LockFile = ExpectedLockFile(p)
        /\ (Succeeded(p, "basic") /\ Succeeded(q, "basic") /\ exe[p] = exe[q])
              => ctx[p].LockFile = ctx[q].LockFile

\* C7 witness: two runs by the same executable path, written with capitals, have
\* both left the lock file of the lower-cased path.
C7_Witness ==
    /\ Succeeded(1, "basic")
    /\ Succeeded(2, "basic")
    /\ exe[1] = ExeUpper
    /\ exe[2] = ExeUpper
    /\ ctx[1].LockFile = ctx[2].LockFile
    /\ ctx[1].LockFile.file = <<"md5">> \o ExeLower \o <<"-", flags.name, ".pid">>

\* C8 as stated: two bootstraps by different executable paths never leave the
\* same LockFile.
C8_SeparationByPath ==
    \A p, q \in Procs :
        (Succeeded(p, "basic") /\ Succeeded(q, "basic") /\ exe[p] # exe[q])
            => ctx[p].LockFile # ctx[q].LockFile

\* C8 (amended): two bootstraps whose executable paths are different after the
\* symbolic links are resolved and the letters are lower-cased never leave the
\* same LockFile; paths that differ only in the case of letters, or of which one
\* is a symbolic link to the other, leave the same LockFile.
C8_Separation ==
    \A p, q \in Procs :
        (Succeeded(p, "basic") /\ Succeeded(q, "basic"))
            => (ResolvedLower(p) # ResolvedLower(q) <=> ctx[p].LockFile # ctx[q].LockFile)

\* C8 witness: two bootstraps by executable paths that resolve to different
\* files have left different lock files.
C8_Witness ==
    /\ Succeeded(1, "basic")
    /\ Succeeded(2, "basic")
    /\ exe[1] = ExeLower
    /\ exe[2] = ExeLink
    /\ ctx[1].LockFile # ctx[2].LockFile

----------------------------------------------------------------------------
(* C2: the bootstrap run again *)

\* the key files in the filesystem f
KeyNodes(f) == {n \in f : n.path \in {PrivPathOf(flags).segs, PubPathOf(flags).segs}}

\* f is what a bootstrap that succeeded and the machine it started leave: both key
\* files, a socket in the socket directory, the target assets and the scratch disk
LeftByBootstrap(f) ==
    /\ FileAt(f, PrivPathOf(flags))
    /\ FileAt(f, PubPathOf(flags))
    /\ \E n \in f : IsPrefix(SocketDir.segs, n.path) /\ n.path # SocketDir.segs
    /\ FileAt(f, Join(TargetDir, "versions.json"))
    /\ FileAt(f, Join(TargetDir, "data.img"))
    /\ FileAt(f, DiskTmpOf(flags))

\* process p runs the bootstrap again: it is not the first, and it started from
\* what a bootstrap leaves
RunsAgain(p) == p > 1 /\ phase[p] # "new" /\ LeftByBootstrap(hist[p].fsAtStart)

\* nothing outside the bootstrap has failed a call of process p: no I/O error,
\* and a port was free
NoOutsideFailure(p) == hist[p].faults = 0 /\ ~hist[p].probe.allBusy

\* the run of process p does not generate keys, leaves the key files as they
\* were, and what it has returned is nil
SecondRunQuiet(p) ==
    /\ hist[p].genCalls = 0
    /\ KeyNodes(fs) = KeyNodes(hist[p].fsAtStart)
    /\ ret[p].PreSetup \in {Pending, Nil}
    /\ ret[p].Setup \in {Pending, Nil}

\* C2 as stated: a bootstrap run again from what a successful bootstrap left
\* returns no error, never generates keys and leaves the key files identical
\* (no call failing for a reason outside the bootstrap).
C2_IdempotentAnyLayout ==
    \A p \in Procs : (RunsAgain(p) /\ NoOutsideFailure(p)) => SecondRunQuiet(p)

\* C2 (amended): the same, when no two of the socket, SSH, log and target
\* directories are equal or nested.
C2_Idempotent ==
    \A p \in Procs : (RunsAgain(p) /\ NoOutsideFailure(p) /\ Apart) => SecondRunQuiet(p)

\* C2 witness: the second bootstrap has returned from Setup with nil, generated
\* no key, and the key files are those the first bootstrap generated.
C2_Witness ==
    /\ RunsAgain(2)
    /\ Apart
    /\ phase[2] = "done"
    /\ ret[2].PreSetup = Nil
    /\ ret[2].Setup = Nil
    /\ hist[2].genCalls = 0
    /\ KeyNodes(fs) = KeyNodes(hist[2].fsAtStart)
    /\ \A n \in KeyNodes(fs) : n.by = SetupStamp(1)

----------------------------------------------------------------------------
(* C11: quiescence at return *)

\* the Context fields the tasks of PreSetup assign
PreSetupFields ==
    {"Name", "CPUS", "MemoryBytes", "IsCliMode", "BindPID", "EventSocketPath",
     "PowerSaveMode", "KernelDebug", "ExecutablePath", "LockFile", "LogPath"}

\* the entries of the filesystem f written by the call stamped by
WrittenBy(f, by) == {n \in f : n.by = by}

\* the phase ph of process p has returned only with every task of it done
AllDoneAtReturn(p, ph) ==
    ret[p][ph] # Pending => \A t \in PhaseTasks(ph) : pc[p][t] = "done"

\* in a step taken after PreSetup of p returned, no task of PreSetup moves, no
\* field of PreSetup changes and no entry is written for PreSetup; after Setup
\* of p returned no task of it moves, the Context is left as it is and no entry
\* is written for Setup
QuietAfterReturn(p) ==
    /\ ret[p].PreSetup # Pending
          => /\ \A t \in PreTasks : pc'[p][t] = pc[p][t]
             /\ \A f \in PreSetupFields : ctx'[p][f] = ctx[p][f]
             /\ WrittenBy(fs', PreStamp(p)) \subseteq WrittenBy(fs, PreStamp(p))
    /\ ret[p].Setup # Pending
          => /\ \A t \in Tasks : pc'[p][t] = pc[p][t]
             /\ ctx'[p] = ctx[p]
             /\ WrittenBy(fs', SetupStamp(p)) \subseteq WrittenBy(fs, SetupStamp(p))

\* C11: PreSetup and Setup return only after every task they launched has
\* finished, and after the return of a phase no task of it writes a Context
\* field or a file, also when a sibling task failed early.
C11_QuiescentAtReturn ==
    /\ [](\A p \in Procs, ph \in {"PreSetup", "Setup"} : AllDoneAtReturn(p, ph))
    /\ [][\A p \in Procs : QuietAfterReturn(p)]_vars

\* C11 witness: sshPort failed first, the ssh task went on to generate the keys
\* and to read the public key, and Setup has returned the error of sshPort.
C11_Witness ==
    /\ ret[1].Setup = "no usable port"
    /\ hist[1].first.Setup.task = "sshPort"
    /\ hist[1].failed = {"sshPort"}
    /\ hist[1].genCalls = 1
    /\ ctx[1].SSHPublicKey # <<>>
    /\ \A t \in SetupTasks : pc[1][t] = "done"

----------------------------------------------------------------------------
(* C12: the tasks and the fields of the Context *)

\* the fields of the Context that a task writes (w) and reads (r) in the step it
\* takes from each of its places
Access ==
    [basic |->
        [mkdir |-> [w |-> {"Name", "CPUS", "MemoryBytes", "IsCliMode", "BindPID",
                           "EventSocketPath", "PowerSaveMode", "KernelDebug"},
                    r |-> {}],
         exe |-> [w |-> {"ExecutablePath", "LockFile"}, r |-> {"ExecutablePath"}]],
     logPath |-> [abs |-> [w |-> {"LogPath"}, r |-> {"LogPath"}]],
     socketPath |->
        [abs |-> [w |-> {"SocketPath", "ForwardSocketPath", "SocketNetworkPath",
                         "SocketInitrdVSockPath", "SocketReadyPath", "RestfulSocketPath",
                         "TimeSyncSocketPath", "SSHAuthSocketPath"},
                  r |-> {}],
         endpoint |-> [w |-> {"Endpoint"}, r |-> {"SocketNetworkPath"}],
         remove |-> [w |-> {}, r |-> {"SocketPath"}],
         mkdir |-> [w |-> {}, r |-> {"SocketPath"}]],
     ssh |->
        [abs |-> [w |-> {"SSHKeyPath", "SSHPrivateKeyPath", "SSHPublicKeyPath"}, r |-> {}],
         probe |-> [w |-> {}, r |-> {"SSHPrivateKeyPath", "SSHPublicKeyPath"}],
         rmPub |-> [w |-> {}, r |-> {"SSHPublicKeyPath"}],
         gen |-> [w |-> {}, r |-> {"SSHKeyPath"}],
         genPub |-> [w |-> {}, r |-> {"SSHKeyPath"}],
         open |-> [w |-> {}, r |-> {"SSHPublicKeyPath"}],
         read |-> [w |-> {"SSHPublicKey"}, r |-> {}]],
     sshPort |-> [find |-> [w |-> {"SSHPort"}, r |-> {}]],
     target |->
        [abs |-> [w |-> {"TargetPath"}, r |-> {"TargetPath"}],
         new |-> [w |-> {"VersionsPath", "KernelPath", "InitrdPath", "RootfsPath",
                         "DiskDataPath", "DiskTmpPath"},
                  r |-> {"TargetPath", "DiskDataPath", "VersionsPath"}],
         handle |-> [w |-> {}, r |-> {}],
         stat |-> [w |-> {}, r |-> {"DiskTmpPath"}],
         create |-> [w |-> {}, r |-> {"DiskTmpPath"}]]]

\* the fields task t writes, and those it reads
Writes(t) == UNION {Access[t][l].w : l \in DOMAIN Access[t]}
Reads(t) == UNION {Access[t][l].r : l \in DOMAIN Access[t]}

\* the steps that write field f: a task and the place it is taken from
Writers(f) == {<<t, l>> \in Tasks \X {"mkdir", "exe", "abs", "endpoint", "remove", "probe",
                                       "rmPub", "gen", "genPub", "open", "read", "find", "new",
                                       "handle", "stat", "create"} :
                  l \in DOMAIN Access[t] /\ f \in Access[t][l].w}

\* no field is written by a task and read or written by a sibling of its phase,
\* and every field has at most one step that writes it
NoSharedField ==
    /\ \A t, u \in Tasks :
          (t # u /\ PhaseOf(t) = PhaseOf(u))
              => Writes(t) \cap (Writes(u) \cup Reads(u)) = {}
    /\ \A f \in DOMAIN ZeroContext : Cardinality(Writers(f)) <= 1

\* a step that changes a field of the Context of p is the step of a task that
\* writes this field from the place the task is at, and the field was not
\* assigned before
WrittenByOwnerOnce(p) ==
    \A f \in DOMAIN ZeroContext :
        ctx'[p][f] # ctx[p][f]
            => /\ ctx[p][f] = ZeroContext[f]
               /\ \E t \in Tasks :
                     /\ pc'[p][t] # pc[p][t]
                     /\ pc[p][t] \in DOMAIN Access[t]
                     /\ f \in Access[t][pc[p][t]].w

\* C12: within a phase no Context field is written by one task and read or
\* written by a sibling task, and across PreSetup and Setup every Context field
\* is written at most once, by the task that owns it.
C12_NoSharedField ==
    /\ []NoSharedField
    /\ [][\A p \in Procs : WrittenByOwnerOnce(p)]_vars

\* C12 witness: the bootstrap is done and every task has assigned its fields.
C12_Witness ==
    /\ Bootstrapped(1)
    /\ \A f \in {"Name", "LockFile", "LogPath", "SocketPath", "Endpoint", "SSHKeyPath",
                 "SSHPublicKey", "SSHPort", "TargetPath", "DiskTmpPath"} :
          ctx[1][f] # ZeroContext[f]

----------------------------------------------------------------------------
(* C13: the stat probes and the mutating sequence of the ssh task *)

\* both stat probes of the ssh task of process p have completed
ProbesComplete(p) == loc[p].statPriv # "todo" /\ loc[p].statPub # "todo"

\* the ssh task of p is in its mutating sequence (remove, remove, generate) or
\* past it
PastProbes(p) == pc[p]["ssh"] \in {"rmPub", "gen", "genPub", "open", "read"}

\* a step in which a stat probe of p completes writes nothing: the filesystem
\* and the Context stay as they are; a step in which the ssh task of p leaves
\* its probes is taken with both probes complete
ProbesApartFromWrites(p) ==
    /\ (loc'[p].statPriv # loc[p].statPriv \/ loc'[p].statPub # loc[p].statPub)
          => (fs' = fs /\ ctx' = ctx /\ pc' = pc)
    /\ (pc[p]["ssh"] = "probe" /\ pc'[p]["ssh"] # "probe") => ProbesComplete(p)

\* C13: the two stat probes of the ssh task write nothing, and the removals and
\* the key generation start only after both probes have completed: neither
\* overlaps a probe of the same run.
C13_ProbesBeforeMutation ==
    /\ [](\A p \in Procs : PastProbes(p) => ProbesComplete(p))
    /\ [][\A p \in Procs : ProbesApartFromWrites(p)]_vars

\* C13 witness: the stat of the public key failed, the one of the private key
\* succeeded, and the ssh task is about to generate the keys.
C13_Witness ==
    /\ pc[1]["ssh"] = "gen"
    /\ loc[1].statPriv = "ok"
    /\ loc[1].statPub = "err"
    /\ ~Exists(fs, PrivPathOf(flags).segs)

----------------------------------------------------------------------------
(* C14: the key pair after the ssh task *)

\* the key material in the content of a private key file and of a public key file
PrivKeyOf(data) == SubSeq(data, 3, Len(data) - 1)
PubKeyOf(data) == SubSeq(data, 3, Len(data) - 3)

\* both key files are regular files in f and are the two halves of one pair
Paired(f) ==
    \E a, b \in f :
        /\ a.path = PrivPathOf(flags).segs /\ a.kind = "file"
        /\ b.path = PubPathOf(flags).segs /\ b.kind = "file"
        /\ a.by = b.by
        /\ PrivKeyOf(a.data) = PubKeyOf(b.data)

\* t is d without the white space at its two ends
IsTrimOf(t, d) ==
    \E i \in 1..(Len(d) + 1), j \in 0..Len(d) :
        /\ t = SubSeq(d, i, j)
        /\ \A k \in 1..(i - 1) : IsSpace(d[k])
        /\ \A k \in (j + 1)..Len(d) : IsSpace(d[k])
        /\ t # <<>> => (~IsSpace(t[1]) /\ ~IsSpace(t[Len(t)]))

\* the key files are a pair and SSHPublicKey of p is the trimmed content of the
\* public key file
KeysConsistent(p) ==
    /\ Paired(fs)
    /\ \E b \in fs : b.path = PubPathOf(flags).segs /\ IsTrimOf(ctx[p].SSHPublicKey, b.data)

\* when Setup of p was called the key files, if both could be stat-ed, were a pair
StartsPaired(p) == KeyBroken(p) \/ Paired(hist[p].fsAtSetup)

\* C14 as stated: whenever the ssh task has returned nil, both key files exist,
\* are of the same generation, and SSHPublicKey is the trimmed content of the
\* public key file on disk.
C14_PairAnyStart == \A p \in Procs : Succeeded(p, "ssh") => KeysConsistent(p)

\* C14 (amended): the same, when the SSH directory overlaps neither the socket
\* directory nor the target directory, and the key files found at the call of
\* Setup, if both were there, were a pair: the ssh task reuses what it finds
\* without comparing the two files.
C14_Pair ==
    \A p \in Procs :
        (/\ Succeeded(p, "ssh")
         /\ ~Overlap(SSHDir, SocketDir)
         /\ ~Overlap(SSHDir, TargetDir)
         /\ StartsPaired(p))
            => KeysConsistent(p)

\* C14 witness: the public key was missing, the ssh task has generated a pair
\* and holds its public key without the line end.
C14_Witness ==
    /\ Succeeded(1, "ssh")
    /\ ~Overlap(SSHDir, SocketDir)
    /\ ~Exists(hist[1].fsAtSetup, PubPathOf(flags).segs)
    /\ hist[1].genCalls = 1
    /\ Paired(fs)
    /\ ctx[1].SSHPublicKey = <<"ssh-ed25519", " ", "x", "x", " ", "ovm">>

----------------------------------------------------------------------------
(* C15: two bootstraps in the ssh task at once *)

\* the ssh task of every process has returned, and no call of any process was
\* failed by an I/O error
AllSSHFinished == \A p \in Procs : pc[p]["ssh"] = "done"
NoFaults == \A p \in Procs : hist[p].faults = 0

\* the processes that called the key generation
Generators == {p \in Procs : hist[p].genCalls > 0}

----------------------------------------------------------------------------
(* One bootstrap under fair scheduling *)

InitFair ==
    InitWith({"vm"}, {LayoutRelative},
             {<<FALSE, "none", "none">>, <<TRUE, "file", "file">>, <<TRUE, "file", "link">>},
             {ExeLink})

\* the steps of one task of process p
TaskStepOf(p, t) ==
    CASE t = "basic" -> basicMkdir(p) \/ basicExe(p)
      [] t = "logPath" -> logPath(p)
      [] t = "socketPath" -> \/ socketPathAbs(p)
                             \/ socketPathEndpoint(p)
                             \/ socketPathRemove(p)
                             \/ socketPathMkdir(p)
      [] t = "ssh" -> SSHStep(p)
      [] t = "sshPort" -> sshPort(p)
      [] t = "target" -> \/ targetAbs(p)
                         \/ targetNew(p)
                         \/ targetHandle(p)
                         \/ targetStat(p)
                         \/ targetCreate(p)

\* the caller's goroutine: it calls PreSetup and Setup and waits in g.Wait()
CallerStep(p) == PreSetupCall(p) \/ PreSetupReturn(p) \/ SetupCall(p) \/ SetupReturn(p)

\* the Go scheduler runs every goroutine that can run: the caller and each task
FairScheduling ==
    /\ WF_vars(CallerStep(1))
    /\ WF_vars(TaskStepOf(1, "basic"))
    /\ WF_vars(TaskStepOf(1, "logPath"))
    /\ WF_vars(TaskStepOf(1, "socketPath"))
    /\ WF_vars(TaskStepOf(1, "ssh"))
    /\ WF_vars(TaskStepOf(1, "sshPort"))
    /\ WF_vars(TaskStepOf(1, "target"))

SpecFair == InitFair /\ [][Next]_vars /\ FairScheduling

----------------------------------------------------------------------------
(* C16: the order inside the target task *)

\* the errors of the calls before the scratch disk: filepath.Abs, os.MkdirAll,
\* newTarget, target.handle
BeforeDiskErrors ==
    {"target: getwd", "target: newTarget",
     Errno("target: mkdir", TRUE, ""), Errno("target: mkdir", FALSE, "not a directory"),
     Errno("target: handle", TRUE, ""), Errno("target: handle", FALSE, "no target directory")}

\* the target task of p moves from place a to place b in this step
TargetMoves(p, a, b) == pc[p]["target"] = a /\ pc'[p]["target"] = b

\* a step of the target task of p: newTarget and target.handle come after the
\* target directory was created, the scratch disk is looked at only when
\* target.handle has returned nil, the sparse allocation is called only after
\* that look, and a task that fails before the disk returns the error of the
\* call that failed with no allocation called
TargetInOrder(p) ==
    /\ pc'[p]["target"] = "new" => (pc[p]["target"] = "new" \/ TargetMoves(p, "abs", "new"))
    /\ TargetMoves(p, "abs", "new") => IsDir(fs', TargetDir.segs)
    /\ pc'[p]["target"] = "handle"
          => (pc[p]["target"] = "handle" \/ TargetMoves(p, "new", "handle"))
    /\ pc'[p]["target"] = "stat" => (pc[p]["target"] = "stat" \/ TargetMoves(p, "handle", "stat"))
    /\ TargetMoves(p, "handle", "stat") => (HandleOk(fs, ctx[p]) /\ "target" \notin hist'[p].failed)
    /\ pc'[p]["target"] = "create"
          => (pc[p]["target"] = "create" \/ TargetMoves(p, "stat", "create"))
    /\ hist'[p].sparseCalls # hist[p].sparseCalls => pc[p]["target"] = "create"
    /\ \A a \in {"abs", "new", "handle"} :
          TargetMoves(p, a, "done")
              => /\ hist'[p].errOf["target"] \in BeforeDiskErrors
                 /\ hist'[p].sparseCalls = 0

\* the look at the scratch disk and its allocation can be taken whatever the
\* sibling tasks are at
DiskStepFree(p) ==
    /\ pc[p]["target"] = "stat" => ENABLED targetStat(p)
    /\ pc[p]["target"] = "create" => ENABLED targetCreate(p)

\* C16: the target directory is created before newTarget and target.handle, the
\* scratch disk is checked and created only after target.handle returned nil;
\* when the directory creation, newTarget or target.handle fails the sparse
\* allocation is never called and the task returns that error; the scratch disk
\* waits on no sibling task.
C16_TargetOrder ==
    /\ [](\A p \in Procs :
             /\ DiskStepFree(p)
             /\ hist[p].errOf["target"] \in BeforeDiskErrors => hist[p].sparseCalls = 0)
    /\ [][\A p \in Procs : TargetInOrder(p)]_vars

\* C16 witness: the target task has created the directory, reconciled and
\* allocated the scratch disk while socketPath, ssh and sshPort have not moved.
C16_Witness ==
    /\ Succeeded(1, "target")
    /\ hist[1].sparseCalls = 1
    /\ FileAt(fs, Join(TargetDir, "versions.json"))
    /\ FileAt(fs, DiskTmpOf(flags))
    /\ pc[1]["socketPath"] = "abs"
    /\ pc[1]["ssh"] = "abs"
    /\ pc[1]["sshPort"] = "find"

----------------------------------------------------------------------------
(* C17: the errors of the ssh task *)

\* the errors of the calls of Context.ssh whose error is returned, by the place
\* of the call: filepath.Abs and os.MkdirAll, utils.GenerateSSHKey, os.Open,
\* io.ReadAll
SSHErrorsAt ==
    [abs    |-> {"ssh: getwd", Errno("ssh: mkdir", TRUE, ""),
                 Errno("ssh: mkdir", FALSE, "not a directory")},
     gen    |-> {Errno("ssh: generate key", TRUE, ""),
                 Errno("ssh: generate key", FALSE, "cannot write key")},
     genPub |-> {Errno("ssh: generate key", TRUE, ""),
                 Errno("ssh: generate key", FALSE, "cannot write key")},
     probe  |-> {Errno("ssh: open public key", TRUE, ""),
                 Errno("ssh: open public key", FALSE, "no such file")},
     open   |-> {Errno("ssh: open public key", TRUE, ""),
                 Errno("ssh: open public key", FALSE, "no such file")},
     read   |-> {Errno("ssh: read public key", TRUE, ""),
                 Errno("ssh: read public key", FALSE, "is a directory")}]

SSHErrors == UNION {SSHErrorsAt[a] : a \in DOMAIN SSHErrorsAt}

\* the call the ssh task of p is at cannot succeed on this filesystem
SSHCallMustFail(p) ==
    \/ pc[p]["ssh"] = "abs" /\ flags.sshKeyPath.abs /\ ~MkdirAllOk(fs, Abs(flags.sshKeyPath))
    \/ pc[p]["ssh"] = "gen" /\ ~WriteOk(fs, ctx[p].SSHPrivateKeyPath)
    \/ pc[p]["ssh"] = "genPub" /\ ~WriteOk(fs, ctx[p].SSHPublicKeyPath)
    \/ pc[p]["ssh"] = "open" /\ ~OpenOk(fs, ctx[p].SSHPublicKeyPath)
    \/ ProbesDone(p) /\ ~ProbesFailed(p) /\ ~OpenOk(fs, ctx[p].SSHPublicKeyPath)
    \/ pc[p]["ssh"] = "read" /\ loc[p].fd.kind # "file"

\* the ssh task of p fails in this step
SSHFailsNow(p) == "ssh" \in hist'[p].failed /\ "ssh" \notin hist[p].failed

\* a step of the ssh task of p: it fails only at one of the five calls, with the
\* error of that call as the result it reports to the group; it fails when that
\* call cannot succeed; the step after a failed stat and the removals never fail
SSHFailsOnlyAtCalls(p) ==
    /\ SSHFailsNow(p)
          => /\ pc[p]["ssh"] \in DOMAIN SSHErrorsAt
             /\ pc[p]["ssh"] = "probe" => ~ProbesFailed(p)
             /\ hist'[p].errOf["ssh"] \in SSHErrorsAt[pc[p]["ssh"]]
             /\ gerr[p] = Nil => gerr'[p] = hist'[p].errOf["ssh"]
             /\ pc'[p]["ssh"] = "done"
    /\ (pc'[p]["ssh"] # pc[p]["ssh"] /\ SSHCallMustFail(p)) => SSHFailsNow(p)
    /\ (pc[p]["ssh"] = "rmPub" \/ (ProbesDone(p) /\ ProbesFailed(p))) => ~SSHFailsNow(p)

\* C17: the ssh task fails exactly when filepath.Abs, os.MkdirAll,
\* utils.GenerateSSHKey, os.Open or io.ReadAll fails, and returns that error; a
\* failed os.Stat or os.RemoveAll never makes it fail by itself; whenever it has
\* failed, SSHPublicKey is unset.
C17_SSHErrors ==
    /\ [](\A p \in Procs :
             /\ "ssh" \in hist[p].failed
                   => /\ hist[p].errOf["ssh"] \in SSHErrors
                      /\ ctx[p].SSHPublicKey = <<>>
             /\ Succeeded(p, "ssh") => hist[p].errOf["ssh"] = Nil)
    /\ [][\A p \in Procs : SSHFailsOnlyAtCalls(p)]_vars

\* C17 witness: a stat failed, the removal of the key left behind failed with an
\* I/O error, and the ssh task has still returned nil with the public key read.
C17_Witness ==
    /\ Succeeded(1, "ssh")
    /\ loc[1].statPub = "err"
    /\ hist[1].faults = 1
    /\ hist[1].failed = {}
    /\ hist[1].genCalls = 1
    /\ ctx[1].SSHPublicKey # <<>>

----------------------------------------------------------------------------
(* C18: the phases return *)

\* task t of p has been started by g.Go and has not returned
Running(p, t) == pc[p][t] \notin {"idle", "done"}

\* every running task can take a step of its own, whatever its siblings are at
NoTaskWaits == \A t \in Tasks : Running(1, t) => ENABLED TaskStepOf(1, t)

\* C18: no task of a phase waits for a sibling; under fair scheduling, every
\* call returning, PreSetup once called returns and Setup once called returns,
\* with an error or without.
C18_Terminates ==
    /\ []NoTaskWaits
    /\ (phase[1] = "pre") ~> (ret[1].PreSetup # Pending)
    /\ (phase[1] = "setup") ~> (ret[1].Setup # Pending)

\* C18 witness: Setup has returned the error of the ssh task, all four tasks
\* done, the key generation having been called.
C18_Witness ==
    /\ phase[1] = "done"
    /\ ret[1].Setup \notin {Nil, Pending}
    /\ \A t \in SetupTasks : pc[1][t] = "done"
    /\ hist[1].failed = {"ssh"}
    /\ hist[1].genCalls = 1

----------------------------------------------------------------------------
(* C19: nothing is undone when a phase fails *)

\* the Context fields assigned before the return of err in task t: none before
\* the return of a filepath.Abs error and in sshPort; in basic lines 83-90; in
\* logPath line 210; in socketPath lines 120-129; in ssh lines 148-150; in
\* target line 221 before the os.MkdirAll error and lines 221-231 after it
AssignedBefore(t, err) ==
    IF err \in {"logPath: getwd", "socketPath: getwd", "ssh: getwd", "target: getwd"} THEN {}
    ELSE IF t = "sshPort" THEN {}
    ELSE IF t = "basic" THEN Access["basic"]["mkdir"].w
    ELSE IF t = "logPath" THEN {"LogPath"}
    ELSE IF t = "socketPath" THEN Writes("socketPath")
    ELSE IF t = "ssh" THEN Access["ssh"]["abs"].w
    ELSE IF err \in {Errno("target: mkdir", TRUE, ""), Errno("target: mkdir", FALSE, "not a directory")}
         THEN {"TargetPath"}
    ELSE Writes("target")

\* the values the path and flag fields are assigned from the flags
AssignedValues ==
    LET c0 == BasicFields(ZeroContext, flags)
        c1 == [c0 EXCEPT !.LogPath = Abs(flags.logPath)]
        c2 == SocketFields(c1, Abs(flags.socketPath), flags.name)
        c3 == [c2 EXCEPT !.Endpoint = EndpointOf(c2)]
        c4 == SSHFields(c3, Abs(flags.sshKeyPath), flags.name)
    IN TargetFields([c4 EXCEPT !.TargetPath = Abs(flags.targetPath)], flags)

\* the failed task t of p: the fields assigned before its failure point hold
\* their values, the fields it assigns after that point are unset
FailedTaskKeeps(p, t) ==
    \A f \in Writes(t) :
        IF f \in AssignedBefore(t, hist[p].errOf[t])
        THEN ctx[p][f] = AssignedValues[f]
        ELSE ctx[p][f] = ZeroContext[f]

\* what the task t of p that returned nil has done is there
EffectsInPlace(p, t) ==
    IF t = "basic" THEN IsDir(fs, <<"tmp", "ovm">>) /\ ctx[p].LockFile # NoLockFile
    ELSE IF t = "logPath" THEN IsDir(fs, LogDir.segs) /\ ctx[p].LogPath = LogDir
    ELSE IF t = "socketPath" THEN SocketIsReset(p) /\ ctx[p].Endpoint # NoEndpoint
    ELSE IF t = "ssh"
         THEN /\ Exists(fs, PrivPathOf(flags).segs)
              /\ FileAt(fs, PubPathOf(flags))
              /\ ctx[p].SSHPublicKey # <<>>
    ELSE IF t = "sshPort" THEN ctx[p].SSHPort \in PortRange(PreferredPort)
    ELSE /\ IsDir(fs, TargetDir.segs)
         /\ \A a \in AssetPaths(ctx[p]) : Exists(fs, a.segs)
         /\ FileAt(fs, DiskTmpOf(flags))

\* phase ph of p has returned an error
ReturnedError(p, ph) == ret[p][ph] \notin {Nil, Pending}

NothingUndone(p) ==
    \A ph \in {"PreSetup", "Setup"} :
        ReturnedError(p, ph)
            => \A t \in PhaseTasks(ph) :
                  /\ Succeeded(p, t) => EffectsInPlace(p, t)
                  /\ t \in hist[p].failed => FailedTaskKeeps(p, t)

\* the step in which a task fails or a phase returns changes no file and clears
\* no field
NoRollbackStep(p) ==
    (hist'[p].failed # hist[p].failed \/ ret'[p] # ret[p])
        => /\ fs' = fs
           /\ \A f \in DOMAIN ZeroContext :
                 ctx'[p][f] # ctx[p][f] => ctx[p][f] = ZeroContext[f]

SetupDirsApart ==
    /\ ~Overlap(SocketDir, SSHDir)
    /\ ~Overlap(SocketDir, TargetDir)
    /\ ~Overlap(SSHDir, TargetDir)

====
